---- MODULE Spec2Model ----
(***************************************************************************)
(* Client side of the usock transport of PMIx (src/mca/ptl/usock/          *)
(* ptl_usock.c): connect_to_peer with its two helpers send_connect_ack and *)
(* recv_connect_ack.                                                       *)
(*                                                                         *)
(* connect_to_peer is a blocking function.  It is cut at the calls that    *)
(* block on the operating system: resolution of the rendezvous point       *)
(* (lines 101-140), pmix_ptl_base_connect (142-148), send_connect_ack      *)
(* (150-154), recv_connect_ack (156-160) and the registration with the     *)
(* event loop (165-187).  Each helper is an operator that computes the     *)
(* helper's whole effect from the answers of the system calls it makes.    *)
(*                                                                         *)
(* Strings are sequences of one-character strings.  Status codes keep the  *)
(* names of pmix_common.h.                                                 *)
(***************************************************************************)
EXTENDS Integers, Sequences, FiniteSets, TLC

\* Bounds of the model.
MaxCalls == 2            \* connect_to_peer calls in one behaviour
NumCtx == 2              \* calling contexts (threads)
MaxMsgs == 3              \* send_recv and send_oneway requests in one behaviour
MaxNsLen == 2            \* characters of a namespace in a connect message
MaxCredLen == 2          \* characters of a credential in a connect message

Ctx == 1..NumCtx
\* A call opens at most one socket, so MaxCalls descriptors are enough.
\* Descriptor numbers are relative to the first free one of the process.
FdRange == 0..(MaxCalls - 1)

\* Program constants.
SizeofInt == 4
SizeofHdr == 16
PMIX_MAX_NSLEN == 255
SunPathSize == 108
RcvTimeoSec == 2

PMIX_VERSION == <<"2", ".", "1">>
bfrops == <<"v", "2", "0">>
gds == <<"h", "a", "s", "h">>
myid == [nspace |-> <<"j", "o", "b">>, rank |-> 0]

VARIABLES
    pc,           \* pc[c]: where context c is inside connect_to_peer
    fr,           \* fr[c]: the locals of c's call (sd, rc), what the call did, and
                  \*        the values of the globals when the call began
    proc_client,  \* PMIX_PROC_IS_CLIENT
    connected,    \* pmix_globals.connected
    pindex,       \* pmix_globals.pindex
    myserver,     \* pmix_client_globals.myserver
    connection,   \* mca_ptl_usock_component.connection (sun_path)
    evbase,       \* pmix_globals.evbase: the events added to the event loop
    sock,         \* the descriptor table of the process, sockets only
    ncalls,       \* connect_to_peer calls begun
    nwrites       \* stores made to pmix_globals.pindex

\* The data plane: what send_recv and send_oneway hand to the event loop and
\* what the event loop does with it.
VARIABLES
    actor,        \* who took the last step: "caller" (a calling context) or "io"
    postq,        \* the requests shifted to the event loop, in the order posted
    send_queue,   \* the messages queued on the peer, the one being sent first
    wire,         \* the parts of messages written to the socket, in order
    posted_recvs, \* the send_recv requests that wait for their reply
    inq,          \* the replies that arrived and are not read yet
    cbs,          \* the reply callbacks invoked, in order
    link,         \* the daemon's end of the connection: "none", "up", "down"
    nsub,         \* requests submitted
    refcount      \* references the requests hold on the peer

\* The connect message: what send_connect_ack was given and what it built.
VARIABLES m_in, m_out

conn_vars == <<pc, fr, proc_client, connected, pindex, myserver, connection,
               evbase, sock, ncalls, nwrites>>
io_vars == <<postq, send_queue, wire, posted_recvs, inq, cbs, link, nsub, refcount>>
msg_vars == <<m_in, m_out>>

vars == <<conn_vars, actor, io_vars, msg_vars>>

----------------------------------------------------------------------------
(* Strings and the C library                                               *)

Min(a, b) == IF a < b THEN a ELSE b

Prefix(s, n) == SubSeq(s, 1, Min(Len(s), n))

\* strncpy(dst, src, n) into a zero-filled buffer of n+1 bytes.
strncpy(src, n) == Prefix(src, n)

\* snprintf(dst, size, "%s", src): at most size-1 characters and a NUL.
snprintf(size, src) == Prefix(src, size - 1)

Digits == ("0" :> 0) @@ ("1" :> 1) @@ ("2" :> 2) @@ ("3" :> 3) @@ ("4" :> 4)
          @@ ("5" :> 5) @@ ("6" :> 6) @@ ("7" :> 7) @@ ("8" :> 8) @@ ("9" :> 9)

RECURSIVE strtoull_from(_, _, _)
strtoull_from(s, i, acc) ==
    IF i > Len(s) \/ s[i] \notin DOMAIN Digits THEN acc
    ELSE strtoull_from(s, i + 1, 10 * acc + Digits[s[i]])

\* strtoull(s, NULL, 10): the leading decimal digits, 0 when there are none.
strtoull(s) == strtoull_from(s, 1, 0)

RECURSIVE argv_split_from(_, _, _, _, _)
argv_split_from(s, delim, i, cur, acc) ==
    LET flushed == IF cur = <<>> THEN acc ELSE Append(acc, cur)
    IN  IF i > Len(s) THEN flushed
        ELSE IF s[i] = delim THEN argv_split_from(s, delim, i + 1, <<>>, flushed)
        ELSE argv_split_from(s, delim, i + 1, Append(cur, s[i]), acc)

\* pmix_argv_split(src, delim): the non-empty tokens between delimiters.
pmix_argv_split(s, delim) == argv_split_from(s, delim, 1, <<>>, <<>>)

pmix_argv_count(argv) == Len(argv)

----------------------------------------------------------------------------
(* Inputs                                                                  *)

Str(s) == [isnull |-> FALSE, s |-> s]
Null == [isnull |-> TRUE, s |-> <<>>]

\* Values of getenv("PMIX_SERVER_URI").
EnvValues ==
    { Null,
      Str(<<"a", ":", "1", ":", "p">>),
      Str(<<"b", ":", "x", ":", "q">>),
      Str(<<"a", ":", "1">>),
      Str(<<"a", ":", ":", "p">>),
      Str(<<"a", ":", "1", ":", "p", ":", "x">>),
      Str(<<>>) }

\* Results of pmix_psec.create_cred: status, credential, reported length.
CredResults ==
    { [rc |-> "PMIX_SUCCESS", cred |-> Null, len |-> 0],
      [rc |-> "PMIX_SUCCESS", cred |-> Str(<<"k">>), len |-> 1],
      [rc |-> "PMIX_ERR_INVALID_CRED", cred |-> Null, len |-> 0] }

\* Results of pmix_psec_base_get_available_modules.
SecLists == { <<"n">> }

\* Results of pmix_ptl_base_send_blocking: all written, or a failure after
\* nothing or after all but one byte.
SendResults == { "ok", "fail_none", "fail_partial" }

\* Results of getsockopt(SO_RCVTIMEO).
GetsockoptResults == { "ok", "ENOPROTOOPT", "error" }

\* Status words the daemon may answer the connect message with.
Replies == { "PMIX_SUCCESS", "PMIX_ERR_READY_FOR_HANDSHAKE",
             "PMIX_ERR_INVALID_CRED", "PMIX_ERR_UNREACH" }

\* Results of pmix_ptl_base_recv_blocking: the bytes asked for, the peer
\* gone, or nothing within the receive timeout of the socket.
RecvResults == { "PMIX_SUCCESS", "PMIX_ERR_UNREACH", "PMIX_ERR_TEMP_UNAVAILABLE" }

\* Results of pmix_psec.client_handshake.
HandshakeResults == { "PMIX_SUCCESS", "PMIX_ERR_HANDSHAKE_FAILED" }

\* Peer indices the daemon may assign.
Pindexes == { 0, 1 }

\* What recv_connect_ack meets on its way: the answers of getsockopt and of
\* the two setsockopt calls, of the two blocking receives with the words
\* received, and of the handshake capability.
\* An answer is drawn only for a call the code makes: one it never reaches
\* is held at its first value.
RecvInputs ==
    { in \in [ gso : GetsockoptResults, sso_set : BOOLEAN, recv1 : RecvResults,
               reply : Replies, hs : HandshakeResults, recv2 : RecvResults,
               index : Pindexes, sso_restore : BOOLEAN ] :
        LET set_asked   == in.gso = "ok"
            recv1_asked == in.gso # "error" /\ (set_asked => in.sso_set)
            got_reply   == recv1_asked /\ in.recv1 = "PMIX_SUCCESS"
            hs_asked    == got_reply /\ in.reply = "PMIX_ERR_READY_FOR_HANDSHAKE"
            recv2_asked == got_reply /\ \/ in.reply = "PMIX_SUCCESS"
                                        \/ hs_asked /\ in.hs = "PMIX_SUCCESS"
            got_index   == recv2_asked /\ in.recv2 = "PMIX_SUCCESS"
            rest_asked  == got_index /\ in.gso = "ok"
        IN  /\ set_asked   \/ in.sso_set
            /\ recv1_asked \/ in.recv1 = "PMIX_SUCCESS"
            /\ got_reply   \/ in.reply = "PMIX_SUCCESS"
            /\ hs_asked    \/ in.hs = "PMIX_SUCCESS"
            /\ recv2_asked \/ in.recv2 = "PMIX_SUCCESS"
            /\ got_index   \/ in.index = 0
            /\ rest_asked  \/ in.sso_restore }

----------------------------------------------------------------------------
(* State                                                                   *)

ClosedSock == [open |-> FALSE, nonblock |-> FALSE, rcvtimeo |-> 0, wrote |-> 0]
FreshSock  == [open |-> TRUE, nonblock |-> FALSE, rcvtimeo |-> 0, wrote |-> 0]

NoEvent == [fd |-> -1, pending |-> FALSE]

Snapshot ==
    [connected |-> connected, pindex |-> pindex, nwrites |-> nwrites,
     info |-> myserver.info, nspace |-> myserver.nspace, rank |-> myserver.rank,
     sd |-> myserver.sd, connection |-> connection,
     open |-> {f \in FdRange : sock[f].open}, evbase |-> evbase]

NoSnapshot ==
    [connected |-> FALSE, pindex |-> -1, nwrites |-> 0,
     info |-> FALSE, nspace |-> <<>>, rank |-> 0,
     sd |-> -1, connection |-> <<>>, open |-> {}, evbase |-> {}]

\* sd, rc: the locals of connect_to_peer.  The rest records the call: env
\* and acc, what getenv and access answered; fd, the descriptor the call
\* opened (-1: none); wrote, the bytes it put on that socket; cred_rc, reply
\* and hs_rc, the status of create_cred, the status word received and the
\* status of client_handshake ("": not there yet); log, the steps taken, in
\* order; pre, the globals when the call began; gso, what getsockopt
\* answered (""), save, the timeout it gave (-1: none), and read_tmo, the
\* receive timeout of the socket when the status word was read (-1: not read).
IdleFrame ==
    [sd |-> -1, rc |-> "PMIX_SUCCESS", env |-> Null, acc |-> FALSE, fd |-> -1,
     wrote |-> 0, reply |-> "", cred_rc |-> "", hs_rc |-> "", log |-> <<>>,
     gso |-> "", save |-> -1, read_tmo |-> -1, pre |-> NoSnapshot]

\* The connect message before send_connect_ack has run.
NoInput == [nspace |-> <<>>, rank |-> 0, version |-> <<>>, cred |-> Null, len |-> 0,
            sec |-> <<>>, gds |-> <<>>, flag |-> 0]
NoMessage == [built |-> FALSE, nbytes |-> 0, msg |-> <<>>, end |-> 0]

Init ==
    /\ pc = [c \in Ctx |-> "idle"]
    /\ fr = [c \in Ctx |-> IdleFrame]
    /\ proc_client \in BOOLEAN
    /\ connected = FALSE
    /\ pindex = -1
    /\ myserver = [info |-> FALSE, nspace |-> <<>>, rank |-> 0, sd |-> -1,
                   recv_event |-> NoEvent, recv_ev_active |-> FALSE,
                   send_event |-> NoEvent, send_ev_active |-> FALSE]
    /\ connection = <<>>
    /\ evbase = {}
    /\ sock = [f \in FdRange |-> ClosedSock]
    /\ ncalls = 0
    /\ nwrites = 0
    /\ actor = "none"
    /\ postq = <<>>
    /\ send_queue = <<>>
    /\ wire = <<>>
    /\ posted_recvs = {}
    /\ inq = <<>>
    /\ cbs = <<>>
    /\ link = "none"
    /\ nsub = 0
    /\ refcount = 0
    /\ m_in = NoInput
    /\ m_out = NoMessage

----------------------------------------------------------------------------
(* Helpers outside this file                                               *)

\* The lowest descriptor number not in use, as socket() hands out.
LowestFree(table) ==
    CHOOSE f \in FdRange : ~table[f].open /\ \A g \in FdRange : g < f => table[g].open

\* Results of pmix_ptl_base_connect: a connected socket, or an error with
\* no socket left behind.
ConnectResults == { "PMIX_SUCCESS", "PMIX_ERR_UNREACH" }

\* CLOSE_THE_SOCKET(s): shut down and close s when it is a descriptor, and
\* set the variable to -1.
CLOSE_THE_SOCKET(table, s) ==
    [sock |-> IF s >= 0 THEN [table EXCEPT ![s] = ClosedSock] ELSE table,
     sd |-> -1,
     log |-> IF s >= 0 THEN <<"close">> ELSE <<>>]

\* pmix_ptl_base_set_nonblocking(sd)
set_nonblocking(table, s) == [table EXCEPT ![s].nonblock = TRUE]

\* pmix_event_assign(ev, base, fd, ...): ev is bound to fd and is not
\* pending.  Assigning an event that is pending in the loop is undefined in
\* libevent: the entry the loop holds for the old descriptor either stays
\* behind (stale = TRUE) or is lost.
event_assign(base, name, ev, fd, stale) ==
    [ev |-> [fd |-> fd, pending |-> FALSE],
     evbase |-> IF ev.pending /\ ~stale
                  THEN base \ {[ev |-> name, fd |-> ev.fd]}
                  ELSE base]

\* pmix_event_add(ev, 0)
event_add(base, name, ev) ==
    [ev |-> [ev EXCEPT !.pending = TRUE],
     evbase |-> base \cup {[ev |-> name, fd |-> ev.fd]}]

----------------------------------------------------------------------------
(* connect_to_peer, lines 101-140: the rendezvous point                    *)

\* Mutant of resolve: a descriptor of more than 3 fields is taken.
resolve_lax(isClient, evar, acc, srv, conn) ==
    LET uri == pmix_argv_split(evar.s, ":")
        same(rc) == [rc |-> rc, myserver |-> srv, connection |-> conn]
    IN  IF ~isClient THEN same("PMIX_ERR_NOT_SUPPORTED")
        ELSE IF evar.isnull THEN same("PMIX_ERR_SERVER_NOT_AVAIL")
        ELSE IF 3 > pmix_argv_count(uri) THEN same("PMIX_ERROR")
        ELSE [rc |-> IF acc THEN "PMIX_SUCCESS" ELSE "PMIX_ERR_NOT_FOUND",
              myserver |-> [srv EXCEPT !.info = TRUE,
                                       !.nspace = strncpy(uri[1], PMIX_MAX_NSLEN),
                                       !.rank = strtoull(uri[2])],
              connection |-> snprintf(SunPathSize - 1, uri[3])]

resolve(isClient, evar, acc, srv, conn) ==
    LET uri == pmix_argv_split(evar.s, ":")
        same(rc) == [rc |-> rc, myserver |-> srv, connection |-> conn]
    IN  IF ~isClient THEN same("PMIX_ERR_NOT_SUPPORTED")
        ELSE IF evar.isnull THEN same("PMIX_ERR_SERVER_NOT_AVAIL")
        ELSE IF 3 # pmix_argv_count(uri) THEN same("PMIX_ERROR")
        ELSE [rc |-> IF acc THEN "PMIX_SUCCESS" ELSE "PMIX_ERR_NOT_FOUND",
              myserver |-> [srv EXCEPT !.info = TRUE,
                                       !.nspace = strncpy(uri[1], PMIX_MAX_NSLEN),
                                       !.rank = strtoull(uri[2])],
              connection |-> snprintf(SunPathSize - 1, uri[3])]

----------------------------------------------------------------------------
(* send_connect_ack, lines 232-341                                         *)

\* hdr.nbytes, lines 250 and 273-276
payload_bytes(cr, sec) ==
    (Len(myid.nspace) + 1 + SizeofInt) + Len(PMIX_VERSION) + 1 + cr.len + 1
    + (Len(sec) + 1) + (Len(bfrops) + 1) + 1 + (Len(gds) + 1)

\* The bytes pmix_ptl_base_send_blocking put on the socket.
sent_bytes(sendRes, size) ==
    CASE sendRes = "ok" -> size
      [] sendRes = "fail_none" -> 0
      [] sendRes = "fail_partial" -> size - 1

\* Mutant of send_connect_ack: the status of create_cred is looked at only
\* after the message went out.
send_connect_ack_checks_late(cr, sec, mallocOk, sendRes) ==
    LET sdsize == SizeofHdr + payload_bytes(cr, sec)
    IN  IF ~mallocOk
          THEN [rc |-> "PMIX_ERR_OUT_OF_RESOURCE", wrote |-> 0, cred_rc |-> cr.rc,
                log |-> <<"create_cred", "malloc">>]
        ELSE [rc |-> IF sendRes # "ok" THEN "PMIX_ERR_UNREACH" ELSE cr.rc,
              wrote |-> sent_bytes(sendRes, sdsize), cred_rc |-> cr.rc,
              log |-> <<"create_cred", "malloc", "send_blocking">>]

send_connect_ack(cr, sec, mallocOk, sendRes) ==
    LET sdsize == SizeofHdr + payload_bytes(cr, sec)
    IN  IF cr.rc # "PMIX_SUCCESS"
          THEN [rc |-> cr.rc, wrote |-> 0, cred_rc |-> cr.rc,
                log |-> <<"create_cred">>]
        ELSE IF ~mallocOk
          THEN [rc |-> "PMIX_ERR_OUT_OF_RESOURCE", wrote |-> 0, cred_rc |-> cr.rc,
                log |-> <<"create_cred", "malloc">>]
        ELSE [rc |-> IF sendRes = "ok" THEN "PMIX_SUCCESS" ELSE "PMIX_ERR_UNREACH",
              wrote |-> sent_bytes(sendRes, sdsize), cred_rc |-> cr.rc,
              log |-> <<"create_cred", "malloc", "send_blocking">>]

\* The bytes of the characters the model uses.
Ascii == ("a" :> 97) @@ ("b" :> 98) @@ ("d" :> 100) @@ ("h" :> 104) @@ ("j" :> 106)
         @@ ("k" :> 107) @@ ("m" :> 109) @@ ("n" :> 110) @@ ("o" :> 111)
         @@ ("s" :> 115) @@ ("v" :> 118)
         @@ ("0" :> 48) @@ ("1" :> 49) @@ ("2" :> 50) @@ ("3" :> 51)
         @@ ("." :> 46) @@ ("," :> 44)

\* The bytes of a C string, without its terminator.
Bytes(s) == [i \in 1..Len(s) |-> Ascii[s[i]]]

\* The w bytes of the unsigned n, lowest first.
RECURSIVE le(_, _)
le(n, w) == IF w = 0 THEN <<>> ELSE <<n % 256>> \o le(n \div 256, w - 1)

\* The four bytes of an int, two's complement.
Int32Bytes(n) ==
    IF n >= 0 THEN le(n, SizeofInt)
    ELSE [i \in 1..SizeofInt |-> 255 - le((-n) - 1, SizeofInt)[i]]

\* memcpy(m + off, b, Len(b)) into the allocation m: a byte past the end of
\* m does not land in it.
memcpy(m, off, b) ==
    [i \in 1..Len(m) |-> IF off < i /\ i <= off + Len(b) THEN b[i - off] ELSE m[i]]

\* lines 245-247 and 277: pindex = -1, tag = UINT32_MAX (the bits of -1) and
\* nbytes, as the bytes of pmix_usock_hdr_t.
hdr_bytes(nbytes) == Int32Bytes(-1) \o Int32Bytes(-1) \o le(nbytes, SizeofHdr - 2 * SizeofInt)

\* lines 273-276: hdr.nbytes, with len as create_cred reported it
msg_nbytes(in) ==
    (Len(in.nspace) + 1 + SizeofInt) + Len(in.version) + 1 + in.len + 1
    + (Len(in.sec) + 1) + (Len(bfrops) + 1) + 1 + (Len(in.gds) + 1)

\* Mutant of connect_fields: the rank goes after the credential.
connect_fields_rank_late(in) ==
    << [b |-> hdr_bytes(msg_nbytes(in)), adv |-> SizeofHdr],
       [b |-> Bytes(in.nspace), adv |-> Len(in.nspace) + 1],
       [b |-> Bytes(in.version), adv |-> Len(in.version) + 1],
       IF ~in.cred.isnull
         THEN [b |-> Bytes(in.cred.s), adv |-> Len(in.cred.s) + 1]
         ELSE [b |-> <<>>, adv |-> 1],
       [b |-> Int32Bytes(in.rank), adv |-> SizeofInt],
       [b |-> Bytes(in.sec), adv |-> Len(in.sec) + 1],
       [b |-> Bytes(bfrops), adv |-> Len(bfrops) + 1],
       [b |-> <<in.flag>>, adv |-> 1],
       [b |-> Bytes(in.gds), adv |-> Len(in.gds) + 1] >>

\* lines 290-330: what is copied into msg, in order, and how far csize moves
\* after each copy (for the last field: to the end of its terminator).
connect_fields(in) ==
    << [b |-> hdr_bytes(msg_nbytes(in)), adv |-> SizeofHdr],
       [b |-> Bytes(in.nspace), adv |-> Len(in.nspace) + 1],
       [b |-> Int32Bytes(in.rank), adv |-> SizeofInt],
       [b |-> Bytes(in.version), adv |-> Len(in.version) + 1],
       IF ~in.cred.isnull
         THEN [b |-> Bytes(in.cred.s), adv |-> Len(in.cred.s) + 1]
         ELSE [b |-> <<>>, adv |-> 1],
       [b |-> Bytes(in.sec), adv |-> Len(in.sec) + 1],
       [b |-> Bytes(bfrops), adv |-> Len(bfrops) + 1],
       [b |-> <<in.flag>>, adv |-> 1],
       [b |-> Bytes(in.gds), adv |-> Len(in.gds) + 1] >>

\* The copies of lines 290-330, one after the other.
RECURSIVE load(_, _, _, _)
load(m, csize, fields, i) ==
    IF i > Len(fields) THEN [msg |-> m, end |-> csize]
    ELSE load(memcpy(m, csize, fields[i].b), csize + fields[i].adv, fields, i + 1)

\* lines 273-330: the message send_connect_ack builds
connect_msg(in) ==
    LET nbytes == msg_nbytes(in)
        sdsize == SizeofHdr + nbytes
        zero == [i \in 1..sdsize |-> 0]
        l == load(zero, 0, connect_fields(in), 1)
    IN  [built |-> TRUE, nbytes |-> nbytes, msg |-> l.msg, end |-> l.end]

----------------------------------------------------------------------------
(* recv_connect_ack, lines 346-408                                         *)

\* Mutant of needs_handshake: the exchange is run on a plain success too.
needs_handshake_on_success(reply) ==
    reply \in {"PMIX_ERR_READY_FOR_HANDSHAKE", "PMIX_SUCCESS"}

\* line 383: the daemon asks for the authentication exchange
needs_handshake(reply) == reply = "PMIX_ERR_READY_FOR_HANDSHAKE"

\* Mutant of ack_status: a refusal of the daemon becomes the generic error.
ack_status_generic(reply, hs) ==
    IF reply = "PMIX_ERR_READY_FOR_HANDSHAKE"
      THEN (IF "PMIX_SUCCESS" # hs THEN hs ELSE "PMIX_SUCCESS")
    ELSE IF "PMIX_SUCCESS" # reply THEN "PMIX_ERROR"
    ELSE "PMIX_SUCCESS"

\* lines 383-389: the status to give up with, PMIX_SUCCESS to go on
ack_status(reply, hs) ==
    IF needs_handshake(reply)
      THEN (IF "PMIX_SUCCESS" # hs THEN hs ELSE "PMIX_SUCCESS")
    ELSE IF "PMIX_SUCCESS" # reply THEN reply
    ELSE "PMIX_SUCCESS"

\* Mutant of recv_connect_ack: the saved timeout is not put back.
recv_connect_ack_keeps_timeout(in, rt, pidx) ==
    LET sockopt == in.gso = "ok"
        save == rt
        s0 == [rc |-> "PMIX_SUCCESS", rcvtimeo |-> rt, pindex |-> pidx,
               stored |-> FALSE, reply |-> "", hs_rc |-> "",
               gso |-> in.gso, save |-> IF sockopt THEN save ELSE -1,
               read_tmo |-> -1, log |-> <<"getsockopt">>]
        s1 == IF sockopt
                THEN [s0 EXCEPT !.log = Append(@, "setsockopt_tv"),
                                !.rcvtimeo = IF in.sso_set THEN RcvTimeoSec ELSE @]
                ELSE s0
        s2 == [s1 EXCEPT !.log = Append(@, "recv_status"),
                         !.read_tmo = s1.rcvtimeo,
                         !.reply = IF in.recv1 = "PMIX_SUCCESS" THEN in.reply ELSE @]
        s3 == IF needs_handshake(in.reply)
                THEN [s2 EXCEPT !.log = Append(@, "client_handshake"),
                                !.hs_rc = in.hs]
                ELSE s2
        s4 == [s3 EXCEPT !.log = Append(@, "recv_pindex"),
                         !.pindex = IF in.recv2 = "PMIX_SUCCESS" THEN in.index ELSE @,
                         !.stored = (in.recv2 = "PMIX_SUCCESS")]
    IN  IF in.gso = "error" THEN [s0 EXCEPT !.rc = "PMIX_ERR_UNREACH"]
        ELSE IF sockopt /\ ~in.sso_set THEN [s1 EXCEPT !.rc = "PMIX_ERR_UNREACH"]
        ELSE IF "PMIX_SUCCESS" # in.recv1 THEN [s2 EXCEPT !.rc = in.recv1]
        ELSE IF "PMIX_SUCCESS" # ack_status(in.reply, in.hs)
          THEN [s3 EXCEPT !.rc = ack_status(in.reply, in.hs)]
        ELSE IF "PMIX_SUCCESS" # in.recv2 THEN [s4 EXCEPT !.rc = in.recv2]
        ELSE s4

\* Mutant of recv_connect_ack: after a plain success the index is not read.
recv_connect_ack_skips_index(in, rt, pidx) ==
    LET sockopt == in.gso = "ok"
        save == rt
        plain == in.reply = "PMIX_SUCCESS"
        s0 == [rc |-> "PMIX_SUCCESS", rcvtimeo |-> rt, pindex |-> pidx,
               stored |-> FALSE, reply |-> "", hs_rc |-> "",
               gso |-> in.gso, save |-> IF sockopt THEN save ELSE -1,
               read_tmo |-> -1, log |-> <<"getsockopt">>]
        s1 == IF sockopt
                THEN [s0 EXCEPT !.log = Append(@, "setsockopt_tv"),
                                !.rcvtimeo = IF in.sso_set THEN RcvTimeoSec ELSE @]
                ELSE s0
        s2 == [s1 EXCEPT !.log = Append(@, "recv_status"),
                         !.read_tmo = s1.rcvtimeo,
                         !.reply = IF in.recv1 = "PMIX_SUCCESS" THEN in.reply ELSE @]
        s3 == IF needs_handshake(in.reply)
                THEN [s2 EXCEPT !.log = Append(@, "client_handshake"),
                                !.hs_rc = in.hs]
                ELSE s2
        s4 == IF plain THEN s3
              ELSE [s3 EXCEPT !.log = Append(@, "recv_pindex"),
                         !.pindex = IF in.recv2 = "PMIX_SUCCESS" THEN in.index ELSE @,
                         !.stored = (in.recv2 = "PMIX_SUCCESS")]
        s5 == IF sockopt
                THEN [s4 EXCEPT !.log = Append(@, "setsockopt_restore"),
                                !.rcvtimeo = IF in.sso_restore THEN save ELSE @]
                ELSE s4
    IN  IF in.gso = "error" THEN [s0 EXCEPT !.rc = "PMIX_ERR_UNREACH"]
        ELSE IF sockopt /\ ~in.sso_set THEN [s1 EXCEPT !.rc = "PMIX_ERR_UNREACH"]
        ELSE IF "PMIX_SUCCESS" # in.recv1 THEN [s2 EXCEPT !.rc = in.recv1]
        ELSE IF "PMIX_SUCCESS" # ack_status(in.reply, in.hs)
          THEN [s3 EXCEPT !.rc = ack_status(in.reply, in.hs)]
        ELSE IF ~plain /\ "PMIX_SUCCESS" # in.recv2 THEN [s4 EXCEPT !.rc = in.recv2]
        ELSE IF sockopt /\ ~in.sso_restore THEN [s5 EXCEPT !.rc = "PMIX_ERR_UNREACH"]
        ELSE s5

recv_connect_ack(in, rt, pidx) ==
    LET sockopt == in.gso = "ok"
        save == rt
        s0 == [rc |-> "PMIX_SUCCESS", rcvtimeo |-> rt, pindex |-> pidx,
               stored |-> FALSE, reply |-> "", hs_rc |-> "",
               gso |-> in.gso, save |-> IF sockopt THEN save ELSE -1,
               read_tmo |-> -1, log |-> <<"getsockopt">>]
        s1 == IF sockopt
                THEN [s0 EXCEPT !.log = Append(@, "setsockopt_tv"),
                                !.rcvtimeo = IF in.sso_set THEN RcvTimeoSec ELSE @]
                ELSE s0
        s2 == [s1 EXCEPT !.log = Append(@, "recv_status"),
                         !.read_tmo = s1.rcvtimeo,
                         !.reply = IF in.recv1 = "PMIX_SUCCESS" THEN in.reply ELSE @]
        s3 == IF needs_handshake(in.reply)
                THEN [s2 EXCEPT !.log = Append(@, "client_handshake"),
                                !.hs_rc = in.hs]
                ELSE s2
        s4 == [s3 EXCEPT !.log = Append(@, "recv_pindex"),
                         !.pindex = IF in.recv2 = "PMIX_SUCCESS" THEN in.index ELSE @,
                         !.stored = (in.recv2 = "PMIX_SUCCESS")]
        s5 == IF sockopt
                THEN [s4 EXCEPT !.log = Append(@, "setsockopt_restore"),
                                !.rcvtimeo = IF in.sso_restore THEN save ELSE @]
                ELSE s4
    IN  IF in.gso = "error" THEN [s0 EXCEPT !.rc = "PMIX_ERR_UNREACH"]
        ELSE IF sockopt /\ ~in.sso_set THEN [s1 EXCEPT !.rc = "PMIX_ERR_UNREACH"]
        ELSE IF "PMIX_SUCCESS" # in.recv1 THEN [s2 EXCEPT !.rc = in.recv1]
        ELSE IF "PMIX_SUCCESS" # ack_status(in.reply, in.hs)
          THEN [s3 EXCEPT !.rc = ack_status(in.reply, in.hs)]
        ELSE IF "PMIX_SUCCESS" # in.recv2 THEN [s4 EXCEPT !.rc = in.recv2]
        ELSE IF sockopt /\ ~in.sso_restore THEN [s5 EXCEPT !.rc = "PMIX_ERR_UNREACH"]
        ELSE s5

----------------------------------------------------------------------------
(* connect_to_peer, lines 92-188                                           *)

\* Mutant of fail_handshake: the status is returned without closing.
fail_handshake_leak(f, table, rc) ==
    [frame |-> [f EXCEPT !.rc = rc], sock |-> table]

\* lines 152-153 and 158-159: CLOSE_THE_SOCKET(sd); return rc;
fail_handshake(f, table, rc) ==
    LET cl == CLOSE_THE_SOCKET(table, f.sd)
    IN  [frame |-> [f EXCEPT !.sd = cl.sd, !.rc = rc, !.log = @ \o cl.log],
         sock |-> cl.sock]

\* Mutant of register: the send event is added to the loop as well.
register_send_active(srv, base, table, sd, stale) ==
    LET ra == event_assign(base, "recv", srv.recv_event, srv.sd, stale)
        rd == event_add(ra.evbase, "recv", ra.ev)
        sa == event_assign(rd.evbase, "send", srv.send_event, srv.sd, stale)
        sd2 == event_add(sa.evbase, "send", sa.ev)
    IN  [connected |-> TRUE,
         sock |-> set_nonblocking(table, sd),
         myserver |-> [srv EXCEPT !.recv_event = rd.ev, !.recv_ev_active = TRUE,
                                  !.send_event = sd2.ev, !.send_ev_active = TRUE],
         evbase |-> sd2.evbase,
         log |-> <<"connected", "set_nonblocking", "event_add_recv",
                   "event_add_send">>]

\* lines 165-187: mark the connection, hand the socket to the event loop
register(srv, base, table, sd, stale) ==
    LET ra == event_assign(base, "recv", srv.recv_event, srv.sd, stale)
        rd == event_add(ra.evbase, "recv", ra.ev)
        sa == event_assign(rd.evbase, "send", srv.send_event, srv.sd, stale)
    IN  [connected |-> TRUE,
         sock |-> set_nonblocking(table, sd),
         myserver |-> [srv EXCEPT !.recv_event = rd.ev, !.recv_ev_active = TRUE,
                                  !.send_event = sa.ev, !.send_ev_active = FALSE],
         evbase |-> sa.evbase,
         log |-> <<"connected", "set_nonblocking", "event_add_recv",
                   "event_assign_send">>]

\* A step of connect_to_peer: it runs in the context of its caller and
\* touches neither the requests nor the message under construction.
CallerStep == actor' = "caller" /\ UNCHANGED <<io_vars, msg_vars>>

\* lines 101-140
Resolve(c, evar, acc) ==
    /\ pc[c] = "idle"
    /\ CallerStep
    /\ ncalls < MaxCalls
    /\ LET r == resolve(proc_client, evar, acc, myserver, connection)
       IN  /\ myserver' = r.myserver
           /\ connection' = r.connection
           /\ fr' = [fr EXCEPT ![c] = [IdleFrame EXCEPT !.rc = r.rc,
                                                        !.env = evar,
                                                        !.acc = acc,
                                                        !.pre = Snapshot,
                                                        !.log = <<"resolve">>]]
           /\ pc' = [pc EXCEPT ![c] = IF r.rc = "PMIX_SUCCESS" THEN "open" ELSE "done"]
    /\ ncalls' = ncalls + 1
    /\ UNCHANGED <<proc_client, connected, pindex, evbase, sock, nwrites>>

\* Mutant of Open: the connection is marked as made once the socket is open.
Open_marks_connected(c, res) ==
    /\ pc[c] = "open"
    /\ CallerStep
    /\ IF res = "PMIX_SUCCESS"
         THEN LET sd == LowestFree(sock)
              IN  /\ sock' = [sock EXCEPT ![sd] = FreshSock]
                  /\ myserver' = [myserver EXCEPT !.sd = sd]
                  /\ fr' = [fr EXCEPT ![c].sd = sd, ![c].fd = sd,
                                      ![c].log = Append(@, "open")]
                  /\ pc' = [pc EXCEPT ![c] = "send"]
                  /\ connected' = TRUE
         ELSE /\ fr' = [fr EXCEPT ![c].rc = res, ![c].log = Append(@, "connect_failed")]
              /\ pc' = [pc EXCEPT ![c] = "done"]
              /\ UNCHANGED <<sock, myserver, connected>>
    /\ UNCHANGED <<proc_client, pindex, connection, evbase, ncalls, nwrites>>

\* lines 142-148
Open(c, res) ==
    /\ pc[c] = "open"
    /\ CallerStep
    /\ IF res = "PMIX_SUCCESS"
         THEN LET sd == LowestFree(sock)
              IN  /\ sock' = [sock EXCEPT ![sd] = FreshSock]
                  /\ myserver' = [myserver EXCEPT !.sd = sd]
                  /\ fr' = [fr EXCEPT ![c].sd = sd, ![c].fd = sd,
                                      ![c].log = Append(@, "open")]
                  /\ pc' = [pc EXCEPT ![c] = "send"]
         ELSE /\ fr' = [fr EXCEPT ![c].rc = res, ![c].log = Append(@, "connect_failed")]
              /\ pc' = [pc EXCEPT ![c] = "done"]
              /\ UNCHANGED <<sock, myserver>>
    /\ UNCHANGED <<proc_client, connected, pindex, connection, evbase, ncalls, nwrites>>

\* lines 150-154
Send(c, cr, sec, mallocOk, sendRes) ==
    /\ pc[c] = "send"
    /\ CallerStep
    /\ LET r == send_connect_ack(cr, sec, mallocOk, sendRes)
           f == [fr[c] EXCEPT !.log = @ \o r.log, !.cred_rc = r.cred_rc,
                             !.wrote = @ + r.wrote]
           table == [sock EXCEPT ![f.sd].wrote = @ + r.wrote]
       IN  IF "PMIX_SUCCESS" # r.rc
             THEN LET x == fail_handshake(f, table, r.rc)
                  IN  /\ fr' = [fr EXCEPT ![c] = x.frame]
                      /\ sock' = x.sock
                      /\ pc' = [pc EXCEPT ![c] = "done"]
             ELSE /\ fr' = [fr EXCEPT ![c] = f]
                  /\ sock' = table
                  /\ pc' = [pc EXCEPT ![c] = "recv"]
    /\ UNCHANGED <<proc_client, connected, pindex, myserver, connection, evbase,
                   ncalls, nwrites>>

\* lines 156-160
Recv(c, in) ==
    /\ pc[c] = "recv"
    /\ CallerStep
    /\ LET r == recv_connect_ack(in, sock[fr[c].sd].rcvtimeo, pindex)
           f == [fr[c] EXCEPT !.log = @ \o r.log, !.reply = r.reply, !.hs_rc = r.hs_rc,
                             !.gso = r.gso, !.save = r.save, !.read_tmo = r.read_tmo]
           table == [sock EXCEPT ![f.sd].rcvtimeo = r.rcvtimeo]
       IN  /\ pindex' = r.pindex
           /\ nwrites' = IF r.stored THEN nwrites + 1 ELSE nwrites
           /\ IF "PMIX_SUCCESS" # r.rc
                THEN LET x == fail_handshake(f, table, r.rc)
                     IN  /\ fr' = [fr EXCEPT ![c] = x.frame]
                         /\ sock' = x.sock
                         /\ pc' = [pc EXCEPT ![c] = "done"]
                ELSE /\ fr' = [fr EXCEPT ![c] = f]
                     /\ sock' = table
                     /\ pc' = [pc EXCEPT ![c] = "register"]
    /\ UNCHANGED <<proc_client, connected, myserver, connection, evbase, ncalls>>

\* lines 162-187
Register(c, stale) ==
    /\ pc[c] = "register"
    /\ CallerStep
    /\ LET r == register(myserver, evbase, sock, fr[c].sd, stale)
       IN  /\ connected' = r.connected
           /\ sock' = r.sock
           /\ myserver' = r.myserver
           /\ evbase' = r.evbase
           /\ fr' = [fr EXCEPT ![c].rc = "PMIX_SUCCESS", ![c].log = @ \o r.log]
    /\ pc' = [pc EXCEPT ![c] = "done"]
    /\ UNCHANGED <<proc_client, pindex, connection, ncalls, nwrites>>

\* The caller takes the status; the frame is gone.
Return(c) ==
    /\ pc[c] = "done"
    /\ CallerStep
    /\ pc' = [pc EXCEPT ![c] = "idle"]
    /\ fr' = [fr EXCEPT ![c] = IdleFrame]
    /\ UNCHANGED <<proc_client, connected, pindex, myserver, connection, evbase,
                   sock, ncalls, nwrites>>

\* One connect_to_peer call at a time: a call begins when no other is running.
Call(c) ==
    /\ \A d \in Ctx : pc[d] = "idle"
    /\ \E evar \in EnvValues, acc \in BOOLEAN : Resolve(c, evar, acc)

Next ==
    \E c \in Ctx :
        \/ Call(c)
        \/ \E res \in ConnectResults : Open(c, res)
        \/ \E cr \in CredResults, sec \in SecLists, mallocOk \in BOOLEAN,
              sendRes \in SendResults : Send(c, cr, sec, mallocOk, sendRes)
        \/ \E in \in RecvInputs : Recv(c, in)
        \/ \E stale \in BOOLEAN : Register(c, stale)
        \/ Return(c)

Spec == Init /\ [][Next]_vars

\* Calls from several threads: nothing in connect_to_peer (92-188) takes a
\* lock or reads a flag, so a call begins whatever the other contexts do.
CallConc(c) ==
    \E evar \in EnvValues, acc \in BOOLEAN : Resolve(c, evar, acc)

NextConc ==
    \E c \in Ctx :
        \/ CallConc(c)
        \/ \E res \in ConnectResults : Open(c, res)
        \/ \E cr \in CredResults, sec \in SecLists, mallocOk \in BOOLEAN,
              sendRes \in SendResults : Send(c, cr, sec, mallocOk, sendRes)
        \/ \E in \in RecvInputs : Recv(c, in)
        \/ \E stale \in BOOLEAN : Register(c, stale)
        \/ Return(c)

SpecConc == Init /\ [][NextConc]_vars

\* The connect message on its own: the identity, the version, what
\* create_cred and the module list gave, and the build options.
NsStrings == {[i \in 1..n |-> "a"] : n \in 0..MaxNsLen}
CredStrings == {[i \in 1..n |-> "k"] : n \in 0..MaxCredLen}

\* create_cred gives no credential, or a string with its length, counted
\* without or with the terminator.
MsgInputs ==
    { in \in [ nspace : NsStrings, rank : {0, 1, 258},
               version : {PMIX_VERSION, <<"3">>},
               cred : {Null} \cup {Str(s) : s \in CredStrings},
               len : 0..(MaxCredLen + 1),
               sec : {<<"n">>, <<"n", ",", "m">>},
               gds : {gds, <<"d", "s", "1", "2">>}, flag : {1, 2} ] :
        IF in.cred.isnull THEN in.len = 0
        ELSE in.len \in {Len(in.cred.s), Len(in.cred.s) + 1} }

InitMarshal ==
    /\ pc = [c \in Ctx |-> "idle"]
    /\ fr = [c \in Ctx |-> IdleFrame]
    /\ proc_client = TRUE
    /\ connected = FALSE
    /\ pindex = -1
    /\ myserver = [info |-> FALSE, nspace |-> <<>>, rank |-> 0, sd |-> -1,
                   recv_event |-> NoEvent, recv_ev_active |-> FALSE,
                   send_event |-> NoEvent, send_ev_active |-> FALSE]
    /\ connection = <<>>
    /\ evbase = {}
    /\ sock = [f \in FdRange |-> ClosedSock]
    /\ ncalls = 0
    /\ nwrites = 0
    /\ actor = "none"
    /\ postq = <<>>
    /\ send_queue = <<>>
    /\ wire = <<>>
    /\ posted_recvs = {}
    /\ inq = <<>>
    /\ cbs = <<>>
    /\ link = "none"
    /\ nsub = 0
    /\ refcount = 0
    /\ m_in \in MsgInputs
    /\ m_out = NoMessage

\* lines 273-330
Marshal ==
    /\ ~m_out.built
    /\ m_out' = connect_msg(m_in)
    /\ actor' = "caller"
    /\ UNCHANGED <<conn_vars, io_vars, m_in>>

SpecMarshal == InitMarshal /\ [][Marshal]_vars

----------------------------------------------------------------------------
(* send_recv and send_oneway, lines 190-230, and the event loop            *)

\* Tags a caller may give to send_oneway.
Tags == {1, 2}

\* The state connect_to_peer leaves behind after its first success, with the
\* daemon's end of the connection up.
InitIO ==
    /\ pc = [c \in Ctx |-> "idle"]
    /\ fr = [c \in Ctx |-> IdleFrame]
    /\ proc_client = TRUE
    /\ connected = TRUE
    /\ pindex = 0
    /\ myserver = [info |-> TRUE, nspace |-> <<"a">>, rank |-> 1, sd |-> 0,
                   recv_event |-> [fd |-> 0, pending |-> TRUE], recv_ev_active |-> TRUE,
                   send_event |-> [fd |-> 0, pending |-> FALSE], send_ev_active |-> FALSE]
    /\ connection = <<"p">>
    /\ evbase = {[fd |-> 0, ev |-> "recv"]}
    /\ sock = [f \in FdRange |->
                 IF f = 0
                   THEN [open |-> TRUE, nonblock |-> TRUE, rcvtimeo |-> 0,
                         wrote |-> SizeofHdr
                                   + payload_bytes([cred |-> Null, len |-> 0], <<"n">>)]
                   ELSE ClosedSock]
    /\ ncalls = 1
    /\ nwrites = 1
    /\ actor = "none"
    /\ postq = <<>>
    /\ send_queue = <<>>
    /\ wire = <<>>
    /\ posted_recvs = {}
    /\ inq = <<>>
    /\ cbs = <<>>
    /\ link = "up"
    /\ nsub = 0
    /\ refcount = 0
    /\ m_in = NoInput
    /\ m_out = NoMessage

\* A step of a calling context in the data plane, whichever thread it is:
\* it writes only the request it posts and the reference count of the peer.
\* The request is the caller's own until the shift, so the call is one step.
PostStep ==
    /\ actor' = "caller"
    /\ UNCHANGED <<conn_vars, msg_vars, send_queue, wire, posted_recvs, inq, cbs, link>>

\* lines 190-210: PMIX_NEW, PMIX_RETAIN, the fields, PMIX_THREADSHIFT
send_recv ==
    /\ nsub < MaxMsgs
    /\ PostStep
    /\ refcount' = refcount + 1
    /\ nsub' = nsub + 1
    /\ postq' = Append(postq, [id |-> nsub + 1, kind |-> "sr", tag |-> 0])

\* lines 212-230: PMIX_NEW, PMIX_RETAIN, the fields, PMIX_THREADSHIFT
send_oneway(tag) ==
    /\ nsub < MaxMsgs
    /\ PostStep
    /\ refcount' = refcount + 1
    /\ nsub' = nsub + 1
    /\ postq' = Append(postq, [id |-> nsub + 1, kind |-> "oneway", tag |-> tag])

\* A step of the event loop: a handler runs in the I/O context.
IoStep ==
    /\ actor' = "io"
    /\ UNCHANGED <<pc, fr, proc_client, connected, pindex, connection, ncalls, nwrites,
                   msg_vars, link, nsub>>

\* Mutant of enqueue: the message goes to the front of the queue.
enqueue_front(q, r) == <<[id |-> r.id, kind |-> r.kind, tag |-> r.tag, sent |-> 0]>> \o q

\* The message of request r is appended to the send queue of the peer.
enqueue(q, r) == Append(q, [id |-> r.id, kind |-> r.kind, tag |-> r.tag, sent |-> 0])

\* The send event of the peer is added to the loop when it is not active.
activate_send(srv, base) ==
    IF srv.send_ev_active THEN [myserver |-> srv, evbase |-> base]
    ELSE LET a == event_add(base, "send", srv.send_event)
         IN  [myserver |-> [srv EXCEPT !.send_event = a.ev, !.send_ev_active = TRUE],
              evbase |-> a.evbase]

\* The send event of the peer is taken out of the loop.
deactivate_send(srv, base) ==
    [myserver |-> [srv EXCEPT !.send_event.pending = FALSE, !.send_ev_active = FALSE],
     evbase |-> base \ {[ev |-> "send", fd |-> srv.send_event.fd]}]

\* The callback of a send_recv request, invoked in the I/O context.
Callback(id, status) == [id |-> id, status |-> status, ctx |-> "io"]

\* pmix_ptl_base_send, the handler send_oneway shifts to: the message is
\* queued on the peer and the send event is activated; with the peer gone
\* the message is dropped.
pmix_ptl_base_send ==
    /\ postq # <<>> /\ Head(postq).kind = "oneway"
    /\ IoStep
    /\ postq' = Tail(postq)
    /\ refcount' = refcount - 1
    /\ IF myserver.sd < 0
         THEN UNCHANGED <<send_queue, myserver, evbase>>
         ELSE LET a == activate_send(myserver, evbase)
              IN  /\ send_queue' = enqueue(send_queue, Head(postq))
                  /\ myserver' = a.myserver
                  /\ evbase' = a.evbase
    /\ UNCHANGED <<sock, wire, posted_recvs, inq, cbs>>

\* pmix_ptl_base_send_recv, the handler send_recv shifts to: a receive is
\* posted for the reply and the message is queued; with the peer gone the
\* callback is given the failure.
pmix_ptl_base_send_recv ==
    /\ postq # <<>> /\ Head(postq).kind = "sr"
    /\ IoStep
    /\ postq' = Tail(postq)
    /\ refcount' = refcount - 1
    /\ IF myserver.sd < 0
         THEN /\ cbs' = Append(cbs, Callback(Head(postq).id, "PMIX_ERR_UNREACH"))
              /\ UNCHANGED <<send_queue, myserver, evbase, posted_recvs>>
         ELSE LET a == activate_send(myserver, evbase)
              IN  /\ posted_recvs' = posted_recvs \cup {Head(postq).id}
                  /\ send_queue' = enqueue(send_queue, Head(postq))
                  /\ myserver' = a.myserver
                  /\ evbase' = a.evbase
                  /\ UNCHANGED cbs
    /\ UNCHANGED <<sock, wire, inq>>

\* pmix_ptl_base_send_handler (line 184): the socket is writable; the next
\* part of the first message goes out, header before body, and the send
\* event is taken out of the loop when the queue is empty.
pmix_ptl_base_send_handler ==
    /\ send_queue # <<>> /\ myserver.send_ev_active /\ myserver.sd >= 0
    /\ link = "up"
    /\ IoStep
    /\ LET m == Head(send_queue)
       IN  /\ wire' = Append(wire, [id |-> m.id, kind |-> m.kind, tag |-> m.tag,
                                    part |-> IF m.sent = 0 THEN "hdr" ELSE "body"])
           /\ IF m.sent = 0
                THEN /\ send_queue' = [send_queue EXCEPT ![1].sent = 1]
                     /\ UNCHANGED <<myserver, evbase>>
              ELSE IF Tail(send_queue) # <<>>
                THEN /\ send_queue' = Tail(send_queue)
                     /\ UNCHANGED <<myserver, evbase>>
              ELSE LET d == deactivate_send(myserver, evbase)
                   IN  /\ send_queue' = <<>>
                       /\ myserver' = d.myserver
                       /\ evbase' = d.evbase
    /\ UNCHANGED <<sock, postq, posted_recvs, inq, cbs, refcount>>

\* pmix_ptl_base_recv_handler (line 174): a message arrived; the posted
\* receive it answers is completed with it, once.
pmix_ptl_base_recv_handler ==
    /\ inq # <<>> /\ myserver.recv_ev_active /\ myserver.sd >= 0
    /\ IoStep
    /\ inq' = Tail(inq)
    /\ IF Head(inq) \in posted_recvs
         THEN /\ cbs' = Append(cbs, Callback(Head(inq), "PMIX_SUCCESS"))
              /\ posted_recvs' = posted_recvs \ {Head(inq)}
         ELSE UNCHANGED <<cbs, posted_recvs>>
    /\ UNCHANGED <<myserver, evbase, sock, postq, send_queue, wire, refcount>>

\* The failure callbacks of the receives in ids, lowest id first.
RECURSIVE fail_all(_)
fail_all(ids) ==
    IF ids = {} THEN <<>>
    ELSE LET id == CHOOSE x \in ids : \A y \in ids : x <= y
         IN  <<Callback(id, "PMIX_ERR_UNREACH")>> \o fail_all(ids \ {id})

\* Mutant of complete_lost: the posted receives are dropped without a word.
complete_lost_silent(ids) == <<>>

\* What the posted receives get when the connection is lost.
complete_lost(ids) == fail_all(ids)

\* The connection was lost (a read of no bytes, after what had arrived was
\* read): both events leave the loop, the socket is closed, the queue is
\* emptied and every posted receive is completed with the failure.
pmix_ptl_base_lost_connection ==
    /\ link = "down" /\ myserver.sd >= 0 /\ inq = <<>>
    /\ IoStep
    /\ evbase' = evbase \ {[ev |-> "recv", fd |-> myserver.recv_event.fd],
                           [ev |-> "send", fd |-> myserver.send_event.fd]}
    /\ sock' = CLOSE_THE_SOCKET(sock, myserver.sd).sock
    /\ myserver' = [myserver EXCEPT !.sd = -1,
                                    !.recv_event.pending = FALSE, !.recv_ev_active = FALSE,
                                    !.send_event.pending = FALSE, !.send_ev_active = FALSE]
    /\ cbs' = cbs \o complete_lost(posted_recvs)
    /\ posted_recvs' = {}
    /\ send_queue' = <<>>
    /\ UNCHANGED <<postq, wire, inq, refcount>>

\* A step of the daemon: it changes what is on the connection, nothing else.
DaemonStep ==
    /\ actor' = "daemon"
    /\ UNCHANGED <<conn_vars, msg_vars, postq, send_queue, wire, posted_recvs, cbs,
                   nsub, refcount>>

\* The requests the daemon has read whole and those it has answered.
Arrived ==
    {wire[i].id : i \in {k \in DOMAIN wire : wire[k].part = "body" /\ wire[k].kind = "sr"}}
Answered == {inq[i] : i \in DOMAIN inq} \cup {cbs[i].id : i \in DOMAIN cbs}

\* The daemon answers a request it has read, once.
daemon_reply(id) ==
    /\ link = "up"
    /\ id \in Arrived \ Answered
    /\ DaemonStep
    /\ inq' = Append(inq, id)
    /\ UNCHANGED link

\* The daemon goes away.
daemon_drop ==
    /\ link = "up"
    /\ DaemonStep
    /\ link' = "down"
    /\ UNCHANGED inq

IoNext ==
    \/ pmix_ptl_base_send
    \/ pmix_ptl_base_send_recv
    \/ pmix_ptl_base_send_handler
    \/ pmix_ptl_base_recv_handler
    \/ pmix_ptl_base_lost_connection

NextIO ==
    \/ send_recv
    \/ \E tag \in Tags : send_oneway(tag)
    \/ IoNext
    \/ \E id \in 1..MaxMsgs : daemon_reply(id)
    \/ daemon_drop

SpecIO == InitIO /\ [][NextIO]_vars

\* The event loop runs a handler that is ready.
SpecIOLive == InitIO /\ [][NextIO]_vars /\ WF_vars(IoNext)

----------------------------------------------------------------------------
(* Properties of connect_to_peer                                           *)

Count(log, op) == Cardinality({i \in DOMAIN log : log[i] = op})

Returned(c) == pc[c] = "done"
Failed(c) == pc[c] = "done" /\ fr[c].rc # "PMIX_SUCCESS"
Succeeded(c) == pc[c] = "done" /\ fr[c].rc = "PMIX_SUCCESS"
OpenFds == {f \in FdRange : sock[f].open}
Quiet == \A c \in Ctx : pc[c] \in {"idle", "done"}

\* C1: a call that opened a socket and returns an error has closed that
\* socket exactly once: it is not left open and it is not closed twice.
C1_FailureClosesOnce ==
    \A c \in Ctx :
        (Failed(c) /\ fr[c].fd # -1) =>
            /\ Count(fr[c].log, "close") = 1
            /\ ~sock[fr[c].fd].open
            /\ OpenFds = fr[c].pre.open

\* C1 witness: a call failed after the peer index was read, socket open.
C1_Witness ==
    \E c \in Ctx : Failed(c) /\ fr[c].fd # -1 /\ Count(fr[c].log, "recv_pindex") = 1

\* C2: while a call runs and after it has failed, pmix_globals.connected has
\* the value it had when the call began; it differs only once the call has
\* returned success, and then it is true.
C2_FlagOnlyOnSuccess ==
    \A c \in Ctx :
        (pc[c] # "idle" /\ connected # fr[c].pre.connected) =>
            Succeeded(c) /\ connected

\* C2 witness: a call failed in the handshake, a call succeeded before it.
C2_Witness ==
    \E c \in Ctx : Failed(c) /\ fr[c].fd # -1 /\ connected /\ fr[c].pre.connected

\* C3 (as claimed): after any sequence of connect calls there is at most one
\* live socket and at most one read registration for the server peer.
C3_SingleRegistration ==
    Quiet =>
        /\ Cardinality(OpenFds) <= 1
        /\ Cardinality({e \in evbase : e.ev = "recv"}) <= 1

\* C4 (as claimed): the peer index is stored at most once, a call that
\* returns an error has stored none, and a call that begins with the index
\* stored does not store it again.
C4_PeerIndexSetOnce ==
    /\ nwrites <= 1
    /\ pindex = -1 <=> nwrites = 0
    /\ \A c \in Ctx :
          /\ Failed(c) => nwrites = fr[c].pre.nwrites /\ pindex = fr[c].pre.pindex
          /\ (pc[c] # "idle" /\ fr[c].pre.nwrites > 0) => pindex = fr[c].pre.pindex

C5_WitnessSuccess ==
    \E c \in Ctx :
        /\ Succeeded(c)
        /\ fr[c].reply = "PMIX_ERR_READY_FOR_HANDSHAKE"
        /\ fr[c].hs_rc = "PMIX_SUCCESS"

\* C6: a status word that is neither success nor the handshake sentinel is
\* what the call returns; the peer index is not read, the connected flag is
\* not touched, and the call made one connection attempt only.
C6_RefusalVerbatim ==
    \A c \in Ctx :
        (pc[c] \in {"register", "done"}
           /\ fr[c].reply \notin {"", "PMIX_SUCCESS", "PMIX_ERR_READY_FOR_HANDSHAKE"}) =>
            /\ pc[c] = "done"
            /\ fr[c].rc = fr[c].reply
            /\ Count(fr[c].log, "recv_pindex") = 0
            /\ pindex = fr[c].pre.pindex
            /\ connected = fr[c].pre.connected
            /\ Count(fr[c].log, "open") = 1
            /\ Count(fr[c].log, "send_blocking") = 1
            /\ Count(fr[c].log, "recv_status") = 1

\* C6 witness: the daemon refused with PMIX_ERR_INVALID_CRED.
C6_Witness ==
    \E c \in Ctx : Returned(c) /\ fr[c].reply = "PMIX_ERR_INVALID_CRED"

\* C7: in a client with the descriptor set, a descriptor that does not split
\* into 3 fields makes the call return PMIX_ERROR, and a descriptor of 3
\* fields whose path is not readable makes it return PMIX_ERR_NOT_FOUND; in
\* both cases the call has opened no socket.
C7_ResolutionErrors ==
    \A c \in Ctx :
        (pc[c] # "idle" /\ proc_client /\ ~fr[c].env.isnull) =>
            LET n == pmix_argv_count(pmix_argv_split(fr[c].env.s, ":"))
                unopened == /\ pc[c] = "done"
                            /\ fr[c].fd = -1
                            /\ Count(fr[c].log, "open") = 0
                            /\ OpenFds = fr[c].pre.open
            IN  /\ n # 3 => fr[c].rc = "PMIX_ERROR" /\ unopened
                /\ (n = 3 /\ ~fr[c].acc) => fr[c].rc = "PMIX_ERR_NOT_FOUND" /\ unopened

\* C7 witness: a descriptor of 4 fields was refused.
C7_Witness ==
    \E c \in Ctx :
        /\ Returned(c) /\ proc_client /\ ~fr[c].env.isnull
        /\ pmix_argv_count(pmix_argv_split(fr[c].env.s, ":")) = 4

\* C7 witness, second case: 3 fields, the path is not readable.
C7_WitnessNotFound ==
    \E c \in Ctx :
        /\ Returned(c) /\ proc_client /\ ~fr[c].env.isnull /\ ~fr[c].acc
        /\ pmix_argv_count(pmix_argv_split(fr[c].env.s, ":")) = 3

\* C8 (as claimed): a call that fails while resolving the rendezvous point
\* leaves the server's namespace and rank, the stored address and the
\* peer's descriptor as they were.
C8_ResolutionNoSideEffects ==
    \A c \in Ctx :
        (Failed(c) /\ fr[c].rc \in {"PMIX_ERROR", "PMIX_ERR_NOT_FOUND"}
           /\ fr[c].log = <<"resolve">>) =>
            /\ myserver.nspace = fr[c].pre.nspace
            /\ myserver.rank = fr[c].pre.rank
            /\ connection = fr[c].pre.connection
            /\ myserver.sd = fr[c].pre.sd

\* C9: when create_cred fails the call returns its status, has put no byte
\* on the socket and has closed the socket.
C9_CredFailureSendsNothing ==
    \A c \in Ctx :
        (pc[c] # "idle" /\ fr[c].cred_rc \notin {"", "PMIX_SUCCESS"}) =>
            /\ pc[c] = "done"
            /\ fr[c].rc = fr[c].cred_rc
            /\ fr[c].wrote = 0
            /\ Count(fr[c].log, "send_blocking") = 0
            /\ ~sock[fr[c].fd].open
            /\ Count(fr[c].log, "close") = 1

\* C9 witness: create_cred failed on an open socket.
C9_Witness ==
    \E c \in Ctx :
        Returned(c) /\ fr[c].cred_rc = "PMIX_ERR_INVALID_CRED" /\ fr[c].fd # -1

\* C10: after a call that returns success the flag is set, the socket is
\* open and non-blocking, the receive event is bound to it, added to the
\* loop and marked active, the send event is bound to it, not added and
\* marked inactive; a call that fails leaves the event loop as it was.
C10_LiveAfterSuccess ==
    \A c \in Ctx :
        /\ Succeeded(c) =>
              /\ connected
              /\ sock[fr[c].fd].open /\ sock[fr[c].fd].nonblock
              /\ myserver.sd = fr[c].fd
              /\ myserver.recv_event = [fd |-> fr[c].fd, pending |-> TRUE]
              /\ [ev |-> "recv", fd |-> fr[c].fd] \in evbase
              /\ myserver.recv_ev_active
              /\ myserver.send_event = [fd |-> fr[c].fd, pending |-> FALSE]
              /\ \A e \in evbase : e.ev # "send"
              /\ ~myserver.send_ev_active
        /\ (pc[c] # "idle" /\ ~Succeeded(c)) => evbase = fr[c].pre.evbase

\* C10 witness: a call returned success.
C10_Witness == \E c \in Ctx : Succeeded(c) /\ ~fr[c].pre.connected

\* The place of a step in the log of a call, 0 when the call has not taken it.
Index(log, op) ==
    IF \E i \in DOMAIN log : log[i] = op
      THEN CHOOSE i \in DOMAIN log : log[i] = op /\ \A j \in 1..(i - 1) : log[j] # op
      ELSE 0

Before(log, a, b) == Index(log, a) > 0 /\ Index(log, a) < Index(log, b)

\* C17: once recv_connect_ack has asked for the receive timeout of the
\* socket: if the option is unsupported, no timeout was set, the status word
\* was read with the socket's own timeout and no restore was tried; if it is
\* supported, the timeout was set to 2 before the status word was read, and
\* a call that got through recv_connect_ack has put back the saved value.
C17_TimeoutBestEffort ==
    \A c \in Ctx :
        pc[c] \in {"register", "done"} =>
            LET f == fr[c]
                through == pc[c] = "register" \/ f.rc = "PMIX_SUCCESS"
            IN  /\ f.gso = "ENOPROTOOPT" =>
                      /\ Count(f.log, "setsockopt_tv") = 0
                      /\ Count(f.log, "setsockopt_restore") = 0
                      /\ Count(f.log, "recv_status") = 1
                      /\ f.read_tmo = FreshSock.rcvtimeo
                      /\ through => sock[f.fd].rcvtimeo = FreshSock.rcvtimeo
                /\ (f.gso = "ok" /\ Count(f.log, "recv_status") = 1) =>
                      /\ Before(f.log, "setsockopt_tv", "recv_status")
                      /\ f.read_tmo = RcvTimeoSec
                /\ (f.gso = "ok" /\ through) =>
                      /\ Count(f.log, "setsockopt_restore") = 1
                      /\ sock[f.fd].rcvtimeo = f.save

\* C17 witness: the option is supported and the call succeeded.
C17_Witness ==
    \E c \in Ctx : Succeeded(c) /\ fr[c].gso = "ok" /\ fr[c].read_tmo = RcvTimeoSec

\* C17 witness, second case: the option is unsupported and the call succeeded.
C17_WitnessUnsupported ==
    \E c \in Ctx : Succeeded(c) /\ fr[c].gso = "ENOPROTOOPT"

\* C18: a call that returns success has taken these steps once each and in
\* this order: socket opened, connect message sent, status word read, the
\* authentication exchange if the daemon asked for it, peer index read,
\* flag set, socket made non-blocking, receive event added.  The event loop
\* holds no event on a socket that is blocking or while the peer index is
\* unset.
C18_StepsInOrder ==
    /\ \A c \in Ctx :
          Succeeded(c) =>
              LET log == fr[c].log
                  asked == fr[c].reply = "PMIX_ERR_READY_FOR_HANDSHAKE"
                  once(op) == Count(log, op) = 1
              IN  /\ once("open") /\ once("send_blocking") /\ once("recv_status")
                  /\ once("recv_pindex") /\ once("connected")
                  /\ once("set_nonblocking") /\ once("event_add_recv")
                  /\ Count(log, "client_handshake") = (IF asked THEN 1 ELSE 0)
                  /\ Before(log, "open", "send_blocking")
                  /\ Before(log, "send_blocking", "recv_status")
                  /\ Before(log, "recv_status", "recv_pindex")
                  /\ asked => /\ Before(log, "recv_status", "client_handshake")
                              /\ Before(log, "client_handshake", "recv_pindex")
                  /\ Before(log, "recv_pindex", "connected")
                  /\ Before(log, "connected", "set_nonblocking")
                  /\ Before(log, "set_nonblocking", "event_add_recv")
    /\ \A e \in evbase : sock[e.fd].open /\ sock[e.fd].nonblock /\ pindex # -1

\* C18 witness: a call succeeded after the authentication exchange.
C18_Witness ==
    \E c \in Ctx :
        /\ Succeeded(c)
        /\ Count(fr[c].log, "client_handshake") = 1
        /\ [ev |-> "recv", fd |-> fr[c].fd] \in evbase

\* The last step a returned call took before it closed its socket.
LastStep(log) ==
    IF log[Len(log)] = "close" THEN log[Len(log) - 1] ELSE log[Len(log)]

\* The call failed in a primitive of the transport: the connect, the
\* blocking send, a blocking receive, or a socket option.
TransportFault(c) ==
    /\ Failed(c)
    /\ \/ LastStep(fr[c].log) \in {"connect_failed", "send_blocking", "getsockopt",
                                   "setsockopt_tv", "recv_pindex", "setsockopt_restore"}
       \/ LastStep(fr[c].log) = "recv_status" /\ fr[c].reply = ""

\* C19 (as claimed): a call that failed in a primitive of the transport
\* returns PMIX_ERR_UNREACH, whatever status the primitive gave.
C19_TransportUnreachable ==
    \A c \in Ctx : TransportFault(c) => fr[c].rc = "PMIX_ERR_UNREACH"

\* C20 (as claimed): the descriptor stored on the server peer is never one
\* that connect_to_peer has closed.
C20_NoClosedDescriptor ==
    myserver.sd # -1 => sock[myserver.sd].open

\* The contexts whose call has opened a socket and has not returned.
InFlight == {c \in Ctx : pc[c] \in {"send", "recv", "register"}}

\* C14 (as claimed): at most one connect attempt is between socket-open and
\* return, and the descriptor on the peer is the one that attempt opened.
C14_OneAttemptInFlight ==
    /\ Cardinality(InFlight) <= 1
    /\ \A c \in InFlight : myserver.sd = fr[c].sd

\* The state of the peer that the event loop works on.
PeerIO ==
    <<myserver.sd, myserver.recv_event, myserver.recv_ev_active,
      myserver.send_event, myserver.send_ev_active, send_queue>>

\* The event loop holds a registration of the peer: its handlers may run.
LoopHasPeer == evbase # {}

\* C13 (as claimed): once the event loop holds a registration of the peer,
\* a step taken in the context of a caller leaves the peer's descriptor,
\* its event registrations and active flags, and its send queue as they are.
C13_PeerOwnedByIO ==
    [][(actor' = "caller" /\ LoopHasPeer) => PeerIO' = PeerIO]_vars

\* The C string that begins at offset off of m.
RECURSIVE cstr_at(_, _)
cstr_at(m, off) ==
    IF off >= Len(m) \/ m[off + 1] = 0 THEN <<>>
    ELSE <<m[off + 1]>> \o cstr_at(m, off + 1)

\* The value of the bytes b, lowest first.
RECURSIVE from_le(_)
from_le(b) == IF b = <<>> THEN 0 ELSE b[1] + 256 * from_le(Tail(b))

\* What a receiver reads out of the payload, field after field.
Parsed(m) ==
    LET ns == cstr_at(m, SizeofHdr)
        o1 == SizeofHdr + Len(ns) + 1
        o2 == o1 + SizeofInt
        ver == cstr_at(m, o2)
        o3 == o2 + Len(ver) + 1
        cred == cstr_at(m, o3)
        o4 == o3 + Len(cred) + 1
        sec == cstr_at(m, o4)
        o5 == o4 + Len(sec) + 1
        bf == cstr_at(m, o5)
        o6 == o5 + Len(bf) + 1
        o7 == o6 + 1
    IN  [nspace |-> ns, rank |-> from_le(SubSeq(m, o1 + 1, o1 + SizeofInt)),
         version |-> ver, cred |-> cred, after_cred |-> o4,
         sec |-> sec, bfrops |-> bf, flag |-> m[o6 + 1], gds |-> cstr_at(m, o7),
         end |-> o7 + Len(cstr_at(m, o7)) + 1]

\* Fields 1-4 as they are laid out when nothing follows them.
FirstFields(in) ==
    Bytes(in.nspace) \o <<0>> \o Int32Bytes(in.rank) \o Bytes(in.version) \o <<0>>
    \o (IF in.cred.isnull THEN <<>> ELSE Bytes(in.cred.s)) \o <<0>>

\* C15 (as claimed): the byte count in the header is the number of payload
\* bytes laid out: the last write offset plus the last field and its
\* terminator is the header size plus nbytes, inside the allocation.
C15_CountMatchesLayout ==
    m_out.built =>
        /\ m_out.end = SizeofHdr + m_out.nbytes
        /\ m_out.end <= Len(m_out.msg)

\* C16: the payload carries namespace, rank, version, credential, module
\* list, serialization profile, flag and data-store name in this order, the
\* last four always; the first four are byte for byte what they are with
\* nothing after them, and a receiver reads back the values given (an empty
\* credential when there was none).
C16_PrefixCompatible ==
    m_out.built =>
        LET p == Parsed(m_out.msg)
            first == FirstFields(m_in)
        IN  /\ SubSeq(m_out.msg, SizeofHdr + 1, SizeofHdr + Len(first)) = first
            /\ p.after_cred = SizeofHdr + Len(first)
            /\ p.nspace = Bytes(m_in.nspace)
            /\ p.rank = m_in.rank
            /\ p.version = Bytes(m_in.version)
            /\ p.cred = (IF m_in.cred.isnull THEN <<>> ELSE Bytes(m_in.cred.s))
            /\ p.sec = Bytes(m_in.sec)
            /\ p.bfrops = Bytes(bfrops)
            /\ p.flag = m_in.flag
            /\ p.gds = Bytes(m_in.gds)
            /\ p.end <= Len(m_out.msg)

\* C16 witness: a message built with a credential and a rank of two bytes.
C16_Witness ==
    /\ m_out.built
    /\ ~m_in.cred.isnull /\ Len(m_in.cred.s) = MaxCredLen
    /\ m_in.rank > 255

\* C16 witness: a message built without a credential.
C16_WitnessNoCred == m_out.built /\ m_in.cred.isnull

\* The parts of send_oneway messages on the wire, in the order written.
OnewayWire == SelectSeq(wire, LAMBDA w : w.kind = "oneway")

\* C11: the messages of send_oneway requests are queued and written in the
\* order the requests were posted: every part of an earlier request is on
\* the wire before any part of a later one, header before body.
C11_OnewayFifo ==
    /\ \A i, j \in DOMAIN OnewayWire :
          i < j => \/ OnewayWire[i].id < OnewayWire[j].id
                   \/ /\ OnewayWire[i].id = OnewayWire[j].id
                      /\ OnewayWire[i].part = "hdr" /\ OnewayWire[j].part = "body"
    /\ \A i, j \in DOMAIN send_queue : i < j => send_queue[i].id < send_queue[j].id
    /\ \A i \in DOMAIN send_queue : \A k \in DOMAIN postq : send_queue[i].id < postq[k].id

\* C11 witness: two send_oneway messages of different tags are whole on the
\* wire.
C11_Witness ==
    \E i, j \in DOMAIN OnewayWire :
        /\ OnewayWire[i].part = "body" /\ OnewayWire[j].part = "body"
        /\ OnewayWire[i].id < OnewayWire[j].id
        /\ OnewayWire[i].tag # OnewayWire[j].tag

\* The callbacks request id has got.
Callbacks(id) == {i \in DOMAIN cbs : cbs[i].id = id}

\* Request id is a send_recv request posted to the event loop.
Accepted(id) == \E k \in DOMAIN postq : postq[k].id = id /\ postq[k].kind = "sr"

\* C12: a send_recv request gets its callback in the I/O context and at most
\* once, with the reply when it arrived and with a failure when the
\* connection was lost first; an accepted request whose reply arrives or
\* whose connection is lost does get it.
C12_CallbackOnce ==
    /\ [](\A id \in 1..MaxMsgs :
             /\ Cardinality(Callbacks(id)) <= 1
             /\ \A i \in Callbacks(id) :
                   /\ cbs[i].ctx = "io"
                   /\ cbs[i].status = "PMIX_SUCCESS" => id \in Arrived
                   /\ cbs[i].status # "PMIX_SUCCESS" => link = "down")
    /\ \A id \in 1..MaxMsgs :
          (Accepted(id) /\ <>(id \in Answered \/ link = "down"))
              ~> (Cardinality(Callbacks(id)) = 1)

\* C12 witness: one request got its reply and another the failure after
\* the connection was lost.
C12_Witness ==
    \E i, j \in DOMAIN cbs :
        cbs[i].status = "PMIX_SUCCESS" /\ cbs[j].status = "PMIX_ERR_UNREACH"

====
